---- MODULE Spec2Model ----
(***************************************************************************)
(* Route optimizer: the App component (src/App.tsx) and the oracle service *)
(* optimizeRoute (src/unnamed/part_000, imported by App.tsx as             *)
(* ./services/geminiService).                                              *)
(*                                                                         *)
(* Text is a sequence of atoms: a separator character (space, newline,     *)
(* comma) or a run of other characters.  A duration text is a sequence of  *)
(* tokens (digit runs and words).  A JSON value is a tagged                *)
(* record.  An optional value (T | null) is <<>> for null and <<v>> for v. *)
(***************************************************************************)
EXTENDS Integers, Sequences, FiniteSets, TLC

VARIABLES
  status,             \* "unmounted" | "mounted" | "crashed" (the effect of App.tsx:23-41 threw)
  apiKey,             \* process.env.API_KEY is set
  storage,            \* localStorage slot 'deliveryRoutes'
  startAddress,       \* App.tsx:11
  deliveryAddresses,  \* App.tsx:12
  optimizedRoute,     \* App.tsx:13 (optional)
  totalTravelTime,    \* App.tsx:14 (optional)
  isLoading,          \* App.tsx:16
  error,              \* App.tsx:17 (a message: sequence of text fragments; <<>> is null)
  savedRoutes,        \* App.tsx:20
  savedIsArray,       \* FALSE when the state holds the non-array value JSON.parse returned
  inflight,           \* requests dispatched to the oracle and not yet settled
  now,                \* the wall clock read by Date.now()
  nSaves, nDeletes,   \* history: completed saves, deletes that named an existing id
  producedFrom,       \* history: the addresses the displayed route was produced from (optional)
  reply, verdict,     \* validator study: the raw oracle text and what optimizeRoute did with it
  schedIn, schedOut,  \* schedule study: validated route and start instant, computed route
  tab,                \* the browser tab whose App instance the variables above hold: "A" | "B"
  background          \* the component state of the other tab's App instance; <<>> when there is none

vars == <<status, apiKey, storage, startAddress, deliveryAddresses, optimizedRoute,
          totalTravelTime, isLoading, error, savedRoutes, savedIsArray, inflight, now,
          nSaves, nDeletes, producedFrom, reply, verdict, schedIn, schedOut, tab,
          background>>

appVars == <<status, apiKey, storage, startAddress, deliveryAddresses, optimizedRoute,
             totalTravelTime, isLoading, error, savedRoutes, savedIsArray, inflight, now,
             nSaves, nDeletes, producedFrom>>

studyVars == <<reply, verdict, schedIn, schedOut>>

tabVars == <<tab, background>>

-----------------------------------------------------------------------------
(* Bounds *)

MaxSaved == 2        \* saves per run
MaxRouteLen == 2     \* steps in an oracle route
MaxTabSaves == 2     \* saves over the two tabs in the two-tab runs

-----------------------------------------------------------------------------
(* Optional values *)

Null == <<>>
Some(v) == <<v>>
IsNull(o) == o = <<>>
Val(o) == o[1]

-----------------------------------------------------------------------------
(* Text: String.prototype.trim, split, join, substring, indexOf, lastIndexOf *)

NL == "\n"

IsSpace(c) == c \in {" ", NL}

RECURSIVE TrimStart(_)
TrimStart(s) == IF s # <<>> /\ IsSpace(Head(s)) THEN TrimStart(Tail(s)) ELSE s

RECURSIVE TrimEnd(_)
TrimEnd(s) ==
  IF s # <<>> /\ IsSpace(s[Len(s)]) THEN TrimEnd(SubSeq(s, 1, Len(s) - 1)) ELSE s

Trim(s) == TrimEnd(TrimStart(s))

RECURSIVE SplitFrom(_, _, _, _, _)
SplitFrom(s, sep, i, cur, acc) ==
  IF i > Len(s) THEN Append(acc, cur)
  ELSE IF s[i] = sep THEN SplitFrom(s, sep, i + 1, <<>>, Append(acc, cur))
  ELSE SplitFrom(s, sep, i + 1, Append(cur, s[i]), acc)

Split(s, sep) == SplitFrom(s, sep, 1, <<>>, <<>>)

RECURSIVE Join(_, _)
Join(list, sep) ==
  IF list = <<>> THEN <<>>
  ELSE IF Len(list) = 1 THEN list[1]
  ELSE list[1] \o <<sep>> \o Join(Tail(list), sep)

\* indexOf / lastIndexOf of the character ch in a raw text: 0-based, -1 when
\* the character does not occur
IndexOf(s, ch) ==
  IF \E i \in 1..Len(s) : s[i].c = ch
  THEN (CHOOSE i \in 1..Len(s) : s[i].c = ch /\ \A j \in 1..(i - 1) : s[j].c # ch) - 1
  ELSE -1

LastIndexOf(s, ch) ==
  IF \E i \in 1..Len(s) : s[i].c = ch
  THEN (CHOOSE i \in 1..Len(s) : s[i].c = ch /\ \A j \in (i + 1)..Len(s) : s[j].c # ch) - 1
  ELSE -1

\* String.prototype.substring(a, b), 0-based, end exclusive: the arguments are
\* swapped when a > b
Substring(s, a, b) ==
  LET lo == IF a <= b THEN a ELSE b
      hi == IF a <= b THEN b ELSE a
  IN SubSeq(s, lo + 1, IF hi <= Len(s) THEN hi ELSE Len(s))

\* deliveryAddresses.split('\n').filter(addr => addr.trim() !== '')
AddressList(text) == SelectSeq(Split(text, NL), LAMBDA addr : Trim(addr) # <<>>)

-----------------------------------------------------------------------------
(* Duration texts and parseDuration *)

Num(n) == [k |-> "num", n |-> n, w |-> ""]
Word(w) == [k |-> "word", n |-> 0, w |-> w]

\* words the pattern "hour" / "min" matches at their start
HourWords == {"hour", "hours"}
MinWords == {"min", "mins", "minutes"}

\* durationStr.match(/(\d+)\s*<unit>/): the leftmost digit run directly followed
\* (after optional white space) by a word that starts with the unit; <<>> when no match
MatchCount(durationStr, UnitWords) ==
  LET hits == {i \in 1..(Len(durationStr) - 1) :
                 /\ durationStr[i].k = "num"
                 /\ durationStr[i + 1].k = "word"
                 /\ durationStr[i + 1].w \in UnitWords}
  IN IF hits = {} THEN Null
     ELSE Some(durationStr[CHOOSE i \in hits : \A j \in hits : i <= j].n)

parseDuration(durationStr) ==
  LET hoursMatch == MatchCount(durationStr, HourWords)
      minsMatch == MatchCount(durationStr, MinWords)
      afterHours == IF IsNull(hoursMatch) THEN 0 ELSE Val(hoursMatch) * 60
      totalMinutes == IF IsNull(minsMatch) THEN afterHours ELSE afterHours + Val(minsMatch)
  IN totalMinutes * 60 * 1000

-----------------------------------------------------------------------------
(* JSON values *)

Undefined == [t |-> "undefined"]
JNull == [t |-> "null"]
JNum(n) == [t |-> "number", n |-> n]
JStr(s) == [t |-> "string", s |-> s]
JArr(items) == [t |-> "array", items |-> items]
JObj(f) == [t |-> "object", f |-> f]

\* v.key for a value v that is neither null nor undefined
Get(v, key) ==
  IF v.t = "object" /\ key \in DOMAIN v.f THEN v.f[key] ELSE Undefined

\* !v is false
Truthy(v) ==
  CASE v.t \in {"undefined", "null"} -> FALSE
    [] v.t = "string" -> v.s # <<>>
    [] v.t = "number" -> v.n # 0
    [] OTHER -> TRUE

-----------------------------------------------------------------------------
(* The oracle's raw text.  A raw text is a sequence of tokens: an opening    *)
(* brace, a closing brace, white space, prose (any other characters, none of *)
(* them a brace), or the well-formed member list of a JSON object (whose own *)
(* nested braces lie strictly inside the outermost pair).                    *)

Open == [c |-> "{", v |-> Undefined]
Close == [c |-> "}", v |-> Undefined]
Space == [c |-> " ", v |-> Undefined]
Prose == [c |-> "prose", v |-> Undefined]
Members(f) == [c |-> "members", v |-> JObj(f)]

IsOpen(tok) == tok.c = "{"
IsClose(tok) == tok.c = "}"
IsRawSpace(tok) == tok.c = " "

RECURSIVE RawTrimStart(_)
RawTrimStart(s) == IF s # <<>> /\ IsRawSpace(Head(s)) THEN RawTrimStart(Tail(s)) ELSE s

RECURSIVE RawTrimEnd(_)
RawTrimEnd(s) ==
  IF s # <<>> /\ IsRawSpace(s[Len(s)]) THEN RawTrimEnd(SubSeq(s, 1, Len(s) - 1)) ELSE s

RawTrim(s) == RawTrimEnd(RawTrimStart(s))

\* JSON.parse: white space between tokens is insignificant; the text parses when
\* it is one object, and then yields it.  [ok, value]
JSONParse(text) ==
  LET toks == SelectSeq(text, LAMBDA tok : ~IsRawSpace(tok))
  IN IF Len(toks) = 2 /\ IsOpen(toks[1]) /\ IsClose(toks[2])
     THEN [ok |-> TRUE, value |-> JObj(<<>>)]
     ELSE IF Len(toks) = 3 /\ IsOpen(toks[1]) /\ toks[2].c = "members" /\ IsClose(toks[3])
     THEN [ok |-> TRUE, value |-> toks[2].v]
     ELSE [ok |-> FALSE, value |-> Undefined]

-----------------------------------------------------------------------------
(* optimizeRoute: what it does with the oracle's text.  A result is          *)
(* [ok, route, totalTravelTime, error]: returned (ok) or thrown (error).     *)

InvalidJsonMessage == <<"Invalid JSON response from API.">>
SyntaxErrorMessage == <<"<the SyntaxError message of JSON.parse>">>
MissingRouteMessage == <<"API response is missing the 'route' array.">>
MissingTotalMessage == <<"API response is missing the 'totalTravelTime' string.">>
NullStepMessage == <<"Cannot read properties of null (reading 'travelTimeFromPrevious')">>
StepMessage(index) ==
  <<"Route step ", ToString(index + 1), " is missing 'travelTimeFromPrevious'.">>
TransportMessage == <<"<the message of the error generateContent rejected with>">>
ApiKeyMessage == <<"API_KEY environment variable not set">>

Returned(route, total) ==
  [ok |-> TRUE, route |-> route, totalTravelTime |-> total, error |-> <<>>]

\* the catch block: every error thrown in the try block is an Error
Rethrown(message) ==
  [ok |-> FALSE, route |-> <<>>, totalTravelTime |-> <<>>,
   error |-> <<"Failed to optimize route: ">> \o message]

\* the step the forEach callback throws at: typeof step.travelTimeFromPrevious
\* !== 'string', or step is null and the property read throws a TypeError
StepThrows(step) ==
  step.t = "null" \/ Get(step, "travelTimeFromPrevious").t # "string"

TotalRejectedTypeOnly(total) == total.t # "string"

\* !parsedResponse.totalTravelTime || typeof parsedResponse.totalTravelTime !== 'string'
TotalRejected(total) == ~Truthy(total) \/ total.t # "string"

CheckSchema(parsedResponse) ==
  LET route == Get(parsedResponse, "route")
      total == Get(parsedResponse, "totalTravelTime")
  IN IF ~Truthy(route) \/ route.t # "array" THEN Rethrown(MissingRouteMessage)
     ELSE IF TotalRejected(total) THEN Rethrown(MissingTotalMessage)
     ELSE LET bad == {i \in 1..Len(route.items) : StepThrows(route.items[i])}
          IN IF bad = {} THEN Returned(route.items, total.s)
             ELSE LET first == CHOOSE i \in bad : \A j \in bad : i <= j
                  IN IF route.items[first].t = "null" THEN Rethrown(NullStepMessage)
                     ELSE Rethrown(StepMessage(first - 1))

\* the span from the first '{' to the last '}' of the trimmed text; null when
\* the code throws "Invalid JSON response from API."
ExtractJson(text) ==
  LET jsonString == RawTrim(text)
      jsonStart == IndexOf(jsonString, "{")
      jsonEnd == LastIndexOf(jsonString, "}")
  IN IF jsonStart # -1 /\ jsonEnd # -1
     THEN Some(Substring(jsonString, jsonStart, jsonEnd + 1))
     ELSE Null

HandleResponseText(text) ==
  LET extracted == ExtractJson(text)
  IN IF IsNull(extracted) THEN Rethrown(InvalidJsonMessage)
     ELSE LET parsed == JSONParse(Val(extracted))
          IN IF ~parsed.ok THEN Rethrown(SyntaxErrorMessage)
             ELSE CheckSchema(parsed.value)

-----------------------------------------------------------------------------
(* The schedule: handleOptimizeRoute's fold over the validated route *)

\* new Date(ms).toLocaleTimeString('en-AU', {hour, minute, hour12}): the hour and
\* minute of the day, with instants counted from a local midnight
FormatTime(ms) == [t |-> "time", minuteOfDay |-> (ms \div 60000) % 1440]

\* { ...step, estimatedArrivalTime: eta }
WithEta(step, eta) ==
  JObj([key \in DOMAIN step.f \cup {"estimatedArrivalTime"} |->
          IF key = "estimatedArrivalTime" THEN eta ELSE step.f[key]])

RECURSIVE ProcessNoCarry(_, _, _)
ProcessNoCarry(route, i, cumulativeTime) ==
  IF i > Len(route) THEN <<>>
  ELSE LET durationMs == parseDuration(Get(route[i], "travelTimeFromPrevious").s)
       IN <<WithEta(route[i], FormatTime(cumulativeTime + durationMs))>>
            \o ProcessNoCarry(route, i + 1, cumulativeTime)

\* result.route.map(step => ...) from step i on, cumulativeTime carried along
RECURSIVE ProcessFrom(_, _, _)
ProcessFrom(route, i, cumulativeTime) ==
  IF i > Len(route) THEN <<>>
  ELSE LET durationMs == parseDuration(Get(route[i], "travelTimeFromPrevious").s)
           next == cumulativeTime + durationMs
       IN <<WithEta(route[i], FormatTime(next))>> \o ProcessFrom(route, i + 1, next)

\* let cumulativeTime = Date.now(); const processedRoute = result.route.map(...)
ProcessRoute(route, dateNow) == ProcessFrom(route, 1, dateNow)

-----------------------------------------------------------------------------
(* optimizeRoute: the request it builds *)

ReturnToWarehouse == "The final stop should be back at the warehouse."
EndAtLastDelivery == "The final stop should be the last delivery address."

\* isRoundTrip ? ... : ...  on "true", "false" or an omitted ("undefined") argument
finalStopInstruction(isRoundTrip) ==
  IF isRoundTrip = "true" THEN ReturnToWarehouse ELSE EndAtLastDelivery

\* deliveryAddresses.map((addr, index) => `${index + 1}. ${addr}`)
addressList(addresses) ==
  [index \in 1..Len(addresses) |-> [number |-> index, addr |-> addresses[index]]]

\* the prompt: its parts in order, and the flag the call was given
BuildRequest(start, addresses, isRoundTrip) ==
  [startAddress |-> start,
   addressList |-> addressList(addresses),
   isRoundTrip |-> isRoundTrip,
   instructions |-> <<"The route must start at the warehouse.",
                      finalStopInstruction(isRoundTrip)>>]

-----------------------------------------------------------------------------
(* App: inputs *)

DefaultStart == <<"Sydney", ",", " ", "NSW", ",", " ", "Australia">>
StartTexts == { <<" ">>, DefaultStart }
DeliveryTexts == { <<" ", NL, "B", NL, "C", " ">> }

D10 == <<Num(10), Word("minutes")>>
D20 == <<Num(20), Word("minutes")>>
D1h30 == <<Num(1), Word("hour"), Num(30), Word("minutes")>>

Step(stop, travelTime) ==
  JObj([stop |-> JNum(stop), travelTimeFromPrevious |-> travelTime])

Payload(route, total) ==
  [key \in (IF IsNull(route) THEN {} ELSE {"route"})
             \cup (IF IsNull(total) THEN {} ELSE {"totalTravelTime"}) |->
     IF key = "route" THEN Val(route) ELSE Val(total)]

\* oracle texts the App is run against: an empty route, a two-step route inside
\* prose, a text without braces
AppReplies ==
  { <<Open, Members(Payload(Some(JArr(<<>>)), Some(JStr(D10)))), Close>>,
    <<Prose, Open,
      Members(Payload(Some(JArr(<<Step(1, JStr(D10)), Step(2, JStr(D20))>>)),
                      Some(JStr(D1h30)))),
      Close, Prose>>,
    <<Prose>> }

\* the slot at start: absent, '', text that is no JSON, '{}', '[]'
InitialSlots ==
  { [kind |-> k, routes |-> <<>>] : k \in {"absent", "empty", "corrupt", "object", "array"} }

-----------------------------------------------------------------------------
(* App *)

StartMessage == <<"Please enter a starting warehouse address.">>
DeliveryMessage == <<"Please enter at least one delivery address.">>

AppInit ==
  /\ status = "unmounted"
  /\ apiKey \in BOOLEAN
  /\ storage \in InitialSlots
  /\ startAddress = DefaultStart
  /\ deliveryAddresses = <<>>
  /\ optimizedRoute = Null
  /\ totalTravelTime = Null
  /\ isLoading = FALSE
  /\ error = <<>>
  /\ savedRoutes = <<>>
  /\ savedIsArray = TRUE
  /\ inflight = <<>>
  /\ now = 0
  /\ nSaves = 0
  /\ nDeletes = 0
  /\ producedFrom = Null

StudyIdle ==
  /\ reply = <<>>
  /\ verdict = Null
  /\ schedIn = <<>>
  /\ schedOut = Null

\* one tab, no other App instance
OneTab ==
  /\ tab = "A"
  /\ background = <<>>

\* the effect run after the first render: JSON.parse throws on text that is no
\* JSON, and an error thrown in an effect unmounts the tree
Mount ==
  /\ status = "unmounted"
  /\ IF storage.kind \in {"absent", "empty"}
     THEN status' = "mounted" /\ UNCHANGED <<savedRoutes, savedIsArray>>
     ELSE IF storage.kind = "corrupt"
     THEN status' = "crashed" /\ UNCHANGED <<savedRoutes, savedIsArray>>
     ELSE IF storage.kind = "object"
     THEN status' = "mounted" /\ savedIsArray' = FALSE /\ UNCHANGED savedRoutes
     ELSE status' = "mounted" /\ savedRoutes' = storage.routes /\ UNCHANGED savedIsArray
  /\ UNCHANGED <<apiKey, storage, startAddress, deliveryAddresses, optimizedRoute,
                 totalTravelTime, isLoading, error, inflight, now, nSaves, nDeletes>>
  /\ UNCHANGED producedFrom
  /\ UNCHANGED studyVars
  /\ UNCHANGED tabVars

\* The clock moves on to a value not read before.  Only a save's id keeps a
\* clock value (an arrival time keeps the minute), so the step is taken once
\* the current value is some saved route's id: a value nothing holds is not
\* told apart from the next one.
Tick ==
  /\ \E i \in 1..Len(savedRoutes) : savedRoutes[i].id = now
  /\ now' = now + 1
  /\ UNCHANGED <<status, apiKey, storage, startAddress, deliveryAddresses, optimizedRoute,
                 totalTravelTime, isLoading, error, savedRoutes, savedIsArray, inflight,
                 nSaves, nDeletes>>
  /\ UNCHANGED producedFrom
  /\ UNCHANGED studyVars
  /\ UNCHANGED tabVars

SetStartAddress ==
  /\ status = "mounted"
  /\ \E text \in StartTexts : startAddress' = text
  /\ UNCHANGED <<status, apiKey, storage, deliveryAddresses, optimizedRoute,
                 totalTravelTime, isLoading, error, savedRoutes, savedIsArray, inflight,
                 now, nSaves, nDeletes>>
  /\ UNCHANGED producedFrom
  /\ UNCHANGED studyVars
  /\ UNCHANGED tabVars

SetDeliveryAddresses ==
  /\ status = "mounted"
  /\ \E text \in DeliveryTexts : deliveryAddresses' = text
  /\ UNCHANGED <<status, apiKey, storage, startAddress, optimizedRoute,
                 totalTravelTime, isLoading, error, savedRoutes, savedIsArray, inflight,
                 now, nSaves, nDeletes>>
  /\ UNCHANGED producedFrom
  /\ UNCHANGED studyVars
  /\ UNCHANGED tabVars

\* the two early returns of handleOptimizeRoute: the message, <<>> when none applies
InputErrorUnfiltered(start, text) ==
  IF Trim(start) = <<>> THEN StartMessage
  ELSE IF Len(Split(text, NL)) = 0 THEN DeliveryMessage
  ELSE <<>>

InputError(start, text) ==
  IF Trim(start) = <<>> THEN StartMessage
  ELSE IF Len(AddressList(text)) = 0 THEN DeliveryMessage
  ELSE <<>>

\* optimizeRoute(startAddress, addresses, userLocation): the fourth argument,
\* isRoundTrip, is not passed
HandleOptimizeRoute ==
  /\ status = "mounted"
  /\ IF InputError(startAddress, deliveryAddresses) # <<>>
     THEN /\ error' = InputError(startAddress, deliveryAddresses)
          /\ UNCHANGED <<isLoading, optimizedRoute, totalTravelTime, inflight, producedFrom>>
     ELSE IF ~apiKey
     THEN /\ error' = ApiKeyMessage
          /\ isLoading' = FALSE
          /\ optimizedRoute' = Null
          /\ totalTravelTime' = Null
          /\ producedFrom' = Null
          /\ UNCHANGED inflight
     ELSE /\ error' = <<>>
          /\ isLoading' = TRUE
          /\ optimizedRoute' = Null
          /\ totalTravelTime' = Null
          /\ producedFrom' = Null
          /\ inflight' = Append(inflight,
                 BuildRequest(startAddress, AddressList(deliveryAddresses), "undefined"))
  /\ UNCHANGED <<status, apiKey, storage, startAddress, deliveryAddresses, savedRoutes,
                 savedIsArray, now, nSaves, nDeletes>>
  /\ UNCHANGED studyVars
  /\ UNCHANGED tabVars

OptimizeEnabled == ~isLoading

RecalculateShown == ~IsNull(optimizedRoute)

RecalculateEnabled == ~IsNull(optimizedRoute) /\ ~isLoading

ClickOptimize == OptimizeEnabled /\ HandleOptimizeRoute

ClickRecalculate == RecalculateEnabled /\ HandleOptimizeRoute

\* the warehouse address and the delivery list a request was built from
RequestAddresses(request) ==
  [startAddress |-> request.startAddress,
   deliveryAddresses |-> [k \in 1..Len(request.addressList) |-> request.addressList[k].addr]]

\* the awaited call settles with the oracle's text: the rest of the try block,
\* the catch and the finally
OracleReplies ==
  /\ status = "mounted"
  /\ inflight # <<>>
  /\ \E text \in AppReplies :
       LET result == HandleResponseText(text)
       IN IF result.ok
          THEN /\ optimizedRoute' = Some(ProcessRoute(result.route, now))
               /\ totalTravelTime' = Some(result.totalTravelTime)
               /\ producedFrom' = Some(RequestAddresses(Head(inflight)))
               /\ UNCHANGED error
          ELSE /\ error' = result.error
               /\ UNCHANGED <<optimizedRoute, totalTravelTime, producedFrom>>
  /\ inflight' = Tail(inflight)
  /\ isLoading' = FALSE
  /\ UNCHANGED <<status, apiKey, storage, startAddress, deliveryAddresses, savedRoutes,
                 savedIsArray, now, nSaves, nDeletes>>
  /\ UNCHANGED studyVars
  /\ UNCHANGED tabVars

\* generateContent rejects (network, auth, quota)
OracleUnavailable ==
  /\ status = "mounted"
  /\ inflight # <<>>
  /\ error' = Rethrown(TransportMessage).error
  /\ inflight' = Tail(inflight)
  /\ isLoading' = FALSE
  /\ UNCHANGED <<status, apiKey, storage, startAddress, deliveryAddresses, optimizedRoute,
                 totalTravelTime, savedRoutes, savedIsArray, now, nSaves, nDeletes>>
  /\ UNCHANGED producedFrom
  /\ UNCHANGED studyVars
  /\ UNCHANGED tabVars

\* the Save button is rendered inside the panel shown when optimizedRoute is set
SaveShown == ~IsNull(optimizedRoute)

\* the record handleSaveRoute builds
NewRoute ==
  [id |-> now,
   name |-> [from |-> Head(Split(startAddress, ",")), stops |-> Len(Val(optimizedRoute))],
   startAddress |-> startAddress,
   deliveryAddresses |-> AddressList(deliveryAddresses),
   optimizedRoute |-> Val(optimizedRoute),
   totalTravelTime |-> Val(totalTravelTime),
   createdAt |-> now]

\* if (!optimizedRoute || !totalTravelTime) return;
SaveReturnsEarly ==
  IsNull(optimizedRoute) \/ IsNull(totalTravelTime) \/ Val(totalTravelTime) = <<>>

\* a save that appends to the collection it reads from the slot
HandleSaveRouteFromSlot ==
  /\ status = "mounted"
  /\ SaveShown
  /\ nSaves < MaxSaved
  /\ ~SaveReturnsEarly
  /\ savedIsArray
  /\ LET updatedRoutes == Append(storage.routes, NewRoute)
     IN /\ savedRoutes' = updatedRoutes
        /\ storage' = [kind |-> "array", routes |-> updatedRoutes]
  /\ nSaves' = nSaves + 1
  /\ UNCHANGED <<status, apiKey, startAddress, deliveryAddresses, optimizedRoute,
                 totalTravelTime, isLoading, error, savedIsArray, inflight, now, nDeletes>>
  /\ UNCHANGED producedFrom
  /\ UNCHANGED studyVars
  /\ UNCHANGED tabVars

\* [...savedRoutes, newRoute] throws when savedRoutes is not iterable: the
\* handler ends there and nothing is set or stored
HandleSaveRoute ==
  /\ status = "mounted"
  /\ SaveShown
  /\ nSaves < MaxSaved
  /\ ~SaveReturnsEarly
  /\ savedIsArray
  /\ LET updatedRoutes == Append(savedRoutes, NewRoute)
     IN /\ savedRoutes' = updatedRoutes
        /\ storage' = [kind |-> "array", routes |-> updatedRoutes]
  /\ nSaves' = nSaves + 1
  /\ UNCHANGED <<status, apiKey, startAddress, deliveryAddresses, optimizedRoute,
                 totalTravelTime, isLoading, error, savedIsArray, inflight, now, nDeletes>>
  /\ UNCHANGED producedFrom
  /\ UNCHANGED studyVars
  /\ UNCHANGED tabVars

\* the modal lists the routes when savedRoutes.length > 0
ListShown == savedIsArray /\ Len(savedRoutes) > 0

LoadedDeliveryTextSpaces(routeToLoad) == Join(routeToLoad.deliveryAddresses, " ")

\* routeToLoad.deliveryAddresses.join('\n')
LoadedDeliveryText(routeToLoad) == Join(routeToLoad.deliveryAddresses, NL)

\* a load that takes the entry out of the collection and the slot
HandleLoadRouteTaking(i) ==
  /\ status = "mounted"
  /\ ListShown
  /\ i \in 1..Len(savedRoutes)
  /\ LET routeToLoad == savedRoutes[i]
         updatedRoutes == SelectSeq(savedRoutes, LAMBDA route : route.id # routeToLoad.id)
     IN /\ startAddress' = routeToLoad.startAddress
        /\ deliveryAddresses' = LoadedDeliveryText(routeToLoad)
        /\ optimizedRoute' = Some(routeToLoad.optimizedRoute)
        /\ totalTravelTime' = Some(routeToLoad.totalTravelTime)
        /\ error' = <<>>
        /\ producedFrom' = Some([startAddress |-> routeToLoad.startAddress,
                                 deliveryAddresses |-> routeToLoad.deliveryAddresses])
        /\ savedRoutes' = updatedRoutes
        /\ storage' = [kind |-> "array", routes |-> updatedRoutes]
  /\ UNCHANGED <<status, apiKey, isLoading, savedIsArray, inflight, now, nSaves, nDeletes>>
  /\ UNCHANGED studyVars
  /\ UNCHANGED tabVars

\* none of the setters handleLoadRoute calls is setSavedRoutes, and it does not
\* write the slot
HandleLoadRoute(i) ==
  /\ status = "mounted"
  /\ ListShown
  /\ i \in 1..Len(savedRoutes)
  /\ LET routeToLoad == savedRoutes[i]
     IN /\ startAddress' = routeToLoad.startAddress
        /\ deliveryAddresses' = LoadedDeliveryText(routeToLoad)
        /\ optimizedRoute' = Some(routeToLoad.optimizedRoute)
        /\ totalTravelTime' = Some(routeToLoad.totalTravelTime)
        /\ error' = <<>>
        /\ producedFrom' = Some([startAddress |-> routeToLoad.startAddress,
                                 deliveryAddresses |-> routeToLoad.deliveryAddresses])
  /\ UNCHANGED <<status, apiKey, storage, isLoading, savedRoutes, savedIsArray, inflight,
                 now, nSaves, nDeletes>>
  /\ UNCHANGED studyVars
  /\ UNCHANGED tabVars

\* savedRoutes.filter(route => route.id !== routeId)
WithoutId(routes, routeId) == SelectSeq(routes, LAMBDA route : route.id # routeId)

\* handleDeleteRoute(route.id) from the list entry i
HandleDeleteRoute(i) ==
  /\ status = "mounted"
  /\ ListShown
  /\ i \in 1..Len(savedRoutes)
  /\ LET updatedRoutes == WithoutId(savedRoutes, savedRoutes[i].id)
     IN /\ savedRoutes' = updatedRoutes
        /\ storage' = [kind |-> "array", routes |-> updatedRoutes]
  /\ nDeletes' = nDeletes + 1
  /\ UNCHANGED <<status, apiKey, startAddress, deliveryAddresses, optimizedRoute,
                 totalTravelTime, isLoading, error, savedIsArray, inflight, now, nSaves>>
  /\ UNCHANGED producedFrom
  /\ UNCHANGED studyVars
  /\ UNCHANGED tabVars

LoadSomeRoute == \E i \in 1..Len(savedRoutes) : HandleLoadRoute(i)

DeleteSomeRoute == \E i \in 1..Len(savedRoutes) : HandleDeleteRoute(i)

Init == AppInit /\ StudyIdle /\ OneTab

Next ==
  \/ Mount
  \/ Tick
  \/ SetStartAddress
  \/ SetDeliveryAddresses
  \/ ClickOptimize
  \/ ClickRecalculate
  \/ OracleReplies
  \/ OracleUnavailable
  \/ HandleSaveRoute
  \/ LoadSomeRoute
  \/ DeleteSomeRoute

Spec == Init /\ [][Next]_vars

-----------------------------------------------------------------------------
(* Validator study: optimizeRoute applied to one oracle text *)

SeqsUpTo(S, n) == UNION { [1..k -> S] : k \in 0..n }

StepValues ==
  { JNull, JNum(5), JObj([stop |-> JNum(1)]), Step(1, JNum(15)),
    Step(1, JStr(<<>>)), Step(1, JStr(D10)) }

RouteValues ==
  { Null, Some(JNull), Some(JStr(D10)), Some(JObj(<<>>)) }
    \cup { Some(JArr(items)) : items \in SeqsUpTo(StepValues, MaxRouteLen) }

TotalValues ==
  { Null, Some(JNull), Some(JNum(0)), Some(JNum(90)), Some(JStr(<<>>)), Some(JStr(D1h30)) }

Payloads == { Payload(route, total) : route \in RouteValues, total \in TotalValues }

Replies ==
  { <<Open, Members(p), Close>> : p \in Payloads }
    \cup { <<Prose, Open, Members(p), Close, Prose>> : p \in Payloads }
    \cup { <<Space, Open, Members(p), Space, Close, Space>> : p \in Payloads }
    \cup { <<>>, <<Prose>>, <<Open, Close>>, <<Close, Open>>, <<Open, Prose, Close>>,
           <<Open, Members(Payload(Some(JArr(<<>>)), Some(JStr(D10))))>>,
           <<Members(Payload(Some(JArr(<<>>)), Some(JStr(D10)))), Close>>,
           <<Open, Members(Payload(Some(JArr(<<>>)), Some(JStr(D10)))), Close, Prose, Close>> }

AppIdle ==
  /\ status = "unmounted"
  /\ apiKey = TRUE
  /\ storage = [kind |-> "absent", routes |-> <<>>]
  /\ startAddress = DefaultStart
  /\ deliveryAddresses = <<>>
  /\ optimizedRoute = Null
  /\ totalTravelTime = Null
  /\ isLoading = FALSE
  /\ error = <<>>
  /\ savedRoutes = <<>>
  /\ savedIsArray = TRUE
  /\ inflight = <<>>
  /\ nSaves = 0
  /\ nDeletes = 0
  /\ producedFrom = Null

ValidatorInit ==
  /\ AppIdle
  /\ now = 0
  /\ reply \in Replies
  /\ verdict = Null
  /\ schedIn = <<>>
  /\ schedOut = Null
  /\ OneTab

Validate ==
  /\ IsNull(verdict)
  /\ verdict' = Some(HandleResponseText(reply))
  /\ UNCHANGED <<reply, schedIn, schedOut>>
  /\ UNCHANGED appVars
  /\ UNCHANGED tabVars

SpecValidator == ValidatorInit /\ [][Validate]_vars

-----------------------------------------------------------------------------
(* Schedule study: the fold applied to one validated route at one instant *)

ScheduleDurations ==
  { <<>>, <<Word("soon")>>, D10, D1h30, <<Num(2), Word("hours")>>,
    <<Word("about"), Num(90), Word("min")>>,
    <<Num(5), Num(3), Word("mins"), Num(7), Word("min")>> }

ScheduleRoutes ==
  { [i \in 1..Len(ds) |-> Step(i, JStr(ds[i]))] : ds \in SeqsUpTo(ScheduleDurations, MaxRouteLen) }

\* midnight, the last millisecond of a minute, 23:00
StartInstants == { 0, 59999, 82800000 }

ScheduleInit ==
  /\ AppIdle
  /\ now \in StartInstants
  /\ reply = <<>>
  /\ verdict = Null
  /\ schedIn \in ScheduleRoutes
  /\ schedOut = Null
  /\ OneTab

ScheduleCompute ==
  /\ IsNull(schedOut)
  /\ schedOut' = Some([dateNow |-> now, route |-> ProcessRoute(schedIn, now)])
  /\ UNCHANGED <<reply, verdict, schedIn>>
  /\ UNCHANGED appVars
  /\ UNCHANGED tabVars

SpecSchedule == ScheduleInit /\ [][ScheduleCompute]_vars

-----------------------------------------------------------------------------
(* Two tabs: two App instances on one localStorage slot and one clock.  The  *)
(* App variables hold the instance that takes the next step; SwitchTab       *)
(* exchanges it with the other one, so every interleaving of the two        *)
(* instances' handlers is a behaviour.  The App does not listen to storage   *)
(* events: an instance reads the slot in its mount effect only.              *)

\* the useState values of the instance the App variables hold (App.tsx:11-20),
\* with its pending requests and its history
Component ==
  [status |-> status,
   startAddress |-> startAddress,
   deliveryAddresses |-> deliveryAddresses,
   optimizedRoute |-> optimizedRoute,
   totalTravelTime |-> totalTravelTime,
   isLoading |-> isLoading,
   error |-> error,
   savedRoutes |-> savedRoutes,
   savedIsArray |-> savedIsArray,
   inflight |-> inflight,
   nSaves |-> nSaves,
   nDeletes |-> nDeletes,
   producedFrom |-> producedFrom]

\* an instance before its first render
FreshComponent ==
  [status |-> "unmounted",
   startAddress |-> DefaultStart,
   deliveryAddresses |-> <<>>,
   optimizedRoute |-> Null,
   totalTravelTime |-> Null,
   isLoading |-> FALSE,
   error |-> <<>>,
   savedRoutes |-> <<>>,
   savedIsArray |-> TRUE,
   inflight |-> <<>>,
   nSaves |-> 0,
   nDeletes |-> 0,
   producedFrom |-> Null]

\* both instances are yet to run their mount effect, which reads the same slot
TabsInit ==
  /\ AppInit
  /\ apiKey
  /\ StudyIdle
  /\ tab = "A"
  /\ background = FreshComponent

\* the other instance takes the next step
SwitchTab ==
  /\ tab' = (IF tab = "A" THEN "B" ELSE "A")
  /\ background' = Component
  /\ status' = background.status
  /\ startAddress' = background.startAddress
  /\ deliveryAddresses' = background.deliveryAddresses
  /\ optimizedRoute' = background.optimizedRoute
  /\ totalTravelTime' = background.totalTravelTime
  /\ isLoading' = background.isLoading
  /\ error' = background.error
  /\ savedRoutes' = background.savedRoutes
  /\ savedIsArray' = background.savedIsArray
  /\ inflight' = background.inflight
  /\ nSaves' = background.nSaves
  /\ nDeletes' = background.nDeletes
  /\ producedFrom' = background.producedFrom
  /\ UNCHANGED <<apiKey, storage, now>>
  /\ UNCHANGED studyVars

\* a save in a tab, at most MaxTabSaves over the two tabs
TabSave == nSaves + background.nSaves < MaxTabSaves /\ HandleSaveRoute

\* The handlers that read or write the collection, and those a route is
\* displayed by; the other handlers leave the collection alone (C11).
TabsNext ==
  \/ Mount
  \/ Tick
  \/ SetDeliveryAddresses
  \/ ClickOptimize
  \/ OracleReplies
  \/ TabSave
  \/ DeleteSomeRoute
  \/ SwitchTab

SpecTabs == TabsInit /\ [][TabsNext]_vars

-----------------------------------------------------------------------------
(* Claims *)

Ids(routes) == { routes[i].id : i \in 1..Len(routes) }

\* C1: starting from an empty store, after n saves and k deletes of existing ids
\* the collection has exactly n - k entries and their ids are pairwise distinct,
\* also when two saves read the same clock value.
C1_CountAndUniqueIds ==
  (status = "mounted" /\ savedIsArray) =>
    /\ Len(savedRoutes) = nSaves - nDeletes
    /\ \A i, j \in 1..Len(savedRoutes) : savedRoutes[i].id = savedRoutes[j].id => i = j

\* C2: with the slot missing or holding text that does not parse as a
\* collection, initialisation yields an empty collection and raises no error.
\* (Until the first save the slot still holds what initialisation read.)
C2_CorruptSlotIsEmpty ==
  (status # "unmounted" /\ storage.kind \in {"absent", "empty", "corrupt", "object"}) =>
    /\ status = "mounted"
    /\ savedIsArray
    /\ savedRoutes = <<>>

\* d1 + ... + di of the parsed durations of a validated route
RECURSIVE SumDurations(_, _)
SumDurations(route, i) ==
  IF i = 0 THEN 0
  ELSE SumDurations(route, i - 1) + parseDuration(route[i].f.travelTimeFromPrevious.s)

\* C3: with T0 the one clock value read for the computation, the arrival time
\* attached to step i is that of the instant T0 + (d1 + ... + di), for every i,
\* and these instants are non-decreasing in route order.
C3_EtaIsCumulative ==
  ~IsNull(schedOut) =>
    LET out == Val(schedOut)
        eta(i) == out.dateNow + SumDurations(schedIn, i)
    IN /\ Len(out.route) = Len(schedIn)
       /\ \A i \in 1..Len(schedIn) :
            out.route[i].f.estimatedArrivalTime = FormatTime(eta(i))
       /\ \A i \in 1..(Len(schedIn) - 1) : eta(i) <= eta(i + 1)

\* a two-step route with two positive durations, computed late enough in the
\* day for the arrival times to pass midnight
C3_Witness ==
  /\ ~IsNull(schedOut)
  /\ Len(schedIn) = 2
  /\ parseDuration(schedIn[1].f.travelTimeFromPrevious.s) > 0
  /\ parseDuration(schedIn[2].f.travelTimeFromPrevious.s) > 0
  /\ Val(schedOut).route[2].f.estimatedArrivalTime.minuteOfDay
       < Val(schedOut).route[1].f.estimatedArrivalTime.minuteOfDay

\* the payload JSON.parse yields for a raw text; null when there is none
ParsedPayload(text) ==
  LET extracted == ExtractJson(text)
  IN IF IsNull(extracted) THEN Null
     ELSE IF JSONParse(Val(extracted)).ok THEN Some(JSONParse(Val(extracted)).value)
     ELSE Null

HasRouteSequence(p) == Get(p, "route").t = "array"

HasTotalText(p) == Get(p, "totalTravelTime").t = "string"

CarriesTravelText(step) ==
  /\ step.t = "object"
  /\ "travelTimeFromPrevious" \in DOMAIN step.f
  /\ step.f.travelTimeFromPrevious.t = "string"

AllStepsCarryTravelText(p) ==
  \A i \in 1..Len(Get(p, "route").items) : CarriesTravelText(Get(p, "route").items[i])

\* C4 as stated: a parsed payload is accepted if and only if route is a
\* sequence, totalTravelTime is text and every step carries a text
\* travelTimeFromPrevious.
C4_AcceptsIffShape ==
  (~IsNull(verdict) /\ ~IsNull(ParsedPayload(reply))) =>
    LET p == Val(ParsedPayload(reply))
    IN Val(verdict).ok <=>
         (HasRouteSequence(p) /\ HasTotalText(p) /\ AllStepsCarryTravelText(p))

\* C4 as amended: ... totalTravelTime is a non-empty text ...; an empty route
\* and an empty travelTimeFromPrevious text are accepted.
C4_AcceptsIffShapeAndTotalNonEmpty ==
  (~IsNull(verdict) /\ ~IsNull(ParsedPayload(reply))) =>
    LET p == Val(ParsedPayload(reply))
    IN Val(verdict).ok <=>
         /\ HasRouteSequence(p)
         /\ HasTotalText(p)
         /\ Get(p, "totalTravelTime").s # <<>>
         /\ AllStepsCarryTravelText(p)

\* accepted: a payload inside prose whose route has a step with an empty
\* travelTimeFromPrevious text
C4_Witness ==
  /\ ~IsNull(verdict)
  /\ Val(verdict).ok
  /\ Len(reply) = 5
  /\ \E i \in 1..Len(Val(verdict).route) :
       Val(verdict).route[i].f.travelTimeFromPrevious.s = <<>>

\* The class of a raw text: 1 no span or no well-formed JSON, 2 no route
\* sequence, 3 no totalTravelTime text, 4 a step without a text
\* travelTimeFromPrevious, taken in this order; 0 when none applies.  An empty
\* totalTravelTime text counts as missing here (see C4).
ReplyClass(text) ==
  IF IsNull(ParsedPayload(text)) THEN 1
  ELSE LET p == Val(ParsedPayload(text))
       IN IF ~HasRouteSequence(p) THEN 2
          ELSE IF ~HasTotalText(p) \/ Get(p, "totalTravelTime").s = <<>> THEN 3
          ELSE IF ~AllStepsCarryTravelText(p) THEN 4
          ELSE 0

FirstOffendingStep(text) ==
  LET items == Get(Val(ParsedPayload(text)), "route").items
  IN CHOOSE i \in 1..Len(items) :
       /\ ~CarriesTravelText(items[i])
       /\ \A j \in 1..(i - 1) : CarriesTravelText(items[j])

\* C5: a text of any of the four classes is rejected, with an error no text of
\* another class gets, and the error of class 4 names the 1-based index of the
\* first offending step.
C5_RejectsWithDistinctErrors ==
  (~IsNull(verdict) /\ ReplyClass(reply) # 0) =>
    /\ ~Val(verdict).ok
    /\ Val(verdict).error # <<>>
    /\ \A other \in Replies :
         (ReplyClass(other) # 0 /\ ReplyClass(other) # ReplyClass(reply))
           => HandleResponseText(other).error # Val(verdict).error
    /\ ReplyClass(reply) = 4 =>
         \E k \in 1..Len(Val(verdict).error) :
           Val(verdict).error[k] = ToString(FirstOffendingStep(reply))

FinalStopInstructions(request) ==
  { k \in 1..Len(request.instructions) :
      request.instructions[k] \in {ReturnToWarehouse, EndAtLastDelivery} }

\* C6: every request sent to the oracle has exactly one final-stop
\* instruction: 'return to warehouse' exactly when the caller's round-trip flag
\* is true, 'end at last delivery' exactly when it is false.
C6_InstructionMatchesFlag ==
  \A r \in 1..Len(inflight) :
    LET request == inflight[r]
        given == { request.instructions[k] : k \in FinalStopInstructions(request) }
    IN /\ Cardinality(FinalStopInstructions(request)) = 1
       /\ (ReturnToWarehouse \in given) <=> (request.isRoundTrip = "true")
       /\ (EndAtLastDelivery \in given) <=> (request.isRoundTrip = "false")

\* the warehouse address is blank after trimming, or no line of the delivery
\* text is non-blank after trimming
BlankInput ==
  \/ Trim(startAddress) = <<>>
  \/ \A k \in 1..Len(Split(deliveryAddresses, NL)) :
       Trim(Split(deliveryAddresses, NL)[k]) = <<>>

\* C7: an optimize invocation on blank input reports an InvalidInput error and
\* dispatches no request; the loading flag, the displayed route and the saved
\* collection stay as they are.
C7_BlankInputRejected ==
  [][((ClickOptimize \/ ClickRecalculate) /\ BlankInput) =>
       /\ error' \in {StartMessage, DeliveryMessage}
       /\ inflight' = inflight
       /\ isLoading' = isLoading
       /\ optimizedRoute' = optimizedRoute
       /\ totalTravelTime' = totalTravelTime
       /\ savedRoutes' = savedRoutes
       /\ storage' = storage]_vars

\* the warehouse address holds only white space, a route is displayed and one
\* is saved, and the warehouse error is shown: Recalculate was refused
C7_Witness ==
  /\ error = StartMessage
  /\ startAddress = <<" ">>
  /\ ~IsNull(optimizedRoute)
  /\ Len(savedRoutes) > 0
  /\ inflight = <<>>

\* C8: every saved route has a non-empty optimizedRoute.
C8_SavedRouteNonEmpty ==
  \A i \in 1..Len(savedRoutes) : Len(savedRoutes[i].optimizedRoute) > 0

\* C9: at most one optimization request is in flight at any time.
C9_SingleFlight ==
  /\ Len(inflight) <= 1
  /\ inflight # <<>> => isLoading

\* a saved route was loaded while the request is pending: Recalculate is shown
\* and disabled
C9_Witness ==
  /\ Len(inflight) = 1
  /\ RecalculateShown
  /\ ~RecalculateEnabled
  /\ ~OptimizeEnabled

Restored(entry) ==
  /\ startAddress' = entry.startAddress
  /\ AddressList(deliveryAddresses') = entry.deliveryAddresses
  /\ optimizedRoute' = Some(entry.optimizedRoute)
  /\ totalTravelTime' = Some(entry.totalTravelTime)

\* C10: a save stores the start address, delivery list, route and total of the
\* displayed route and changes no existing entry; a delete drops the entries of
\* its id and keeps every other entry as it is; no other step changes the
\* collection; a load restores the four values of the entry it loads.
C10_SaveLoadRoundTrip ==
  [][/\ HandleSaveRoute =>
          /\ Len(savedRoutes') = Len(savedRoutes) + 1
          /\ SubSeq(savedRoutes', 1, Len(savedRoutes)) = savedRoutes
          /\ savedRoutes'[Len(savedRoutes')].startAddress = startAddress
          /\ savedRoutes'[Len(savedRoutes')].deliveryAddresses = AddressList(deliveryAddresses)
          /\ savedRoutes'[Len(savedRoutes')].optimizedRoute = Val(optimizedRoute)
          /\ savedRoutes'[Len(savedRoutes')].totalTravelTime = Val(totalTravelTime)
     /\ \A i \in 1..Len(savedRoutes) :
          HandleDeleteRoute(i) =>
            savedRoutes' = SelectSeq(savedRoutes, LAMBDA route : route.id # savedRoutes[i].id)
     /\ (status = "mounted" /\ ~HandleSaveRoute /\ ~DeleteSomeRoute) =>
          savedRoutes' = savedRoutes
     /\ \A i \in 1..Len(savedRoutes) :
          HandleLoadRoute(i) => Restored(savedRoutes[i])]_vars

\* the first of two saved routes, saved with two delivery addresses, was loaded
\* after the second save and while a request is pending
C10_Witness ==
  /\ isLoading
  /\ Len(savedRoutes) = 2
  /\ savedRoutes[1].optimizedRoute # savedRoutes[2].optimizedRoute
  /\ Len(savedRoutes[1].deliveryAddresses) = 2
  /\ startAddress = savedRoutes[1].startAddress
  /\ AddressList(deliveryAddresses) = savedRoutes[1].deliveryAddresses
  /\ optimizedRoute = Some(savedRoutes[1].optimizedRoute)
  /\ totalTravelTime = Some(savedRoutes[1].totalTravelTime)

\* C11: loading a saved route and running an optimization (accepted, rejected
\* by the validator, or refused by the oracle) leave the saved-route collection
\* and the persisted slot as they are; once the App is mounted an entry is added
\* to either only by a save and removed from either only by a delete.
C11_LoadAndOptimizeKeepStore ==
  [][/\ (LoadSomeRoute \/ ClickOptimize \/ ClickRecalculate
            \/ OracleReplies \/ OracleUnavailable) =>
          /\ savedRoutes' = savedRoutes
          /\ savedIsArray' = savedIsArray
          /\ storage' = storage
     /\ (status = "mounted" /\ (savedRoutes' # savedRoutes \/ storage' # storage)) =>
          (HandleSaveRoute \/ DeleteSomeRoute)
     /\ (status = "mounted" /\ (Len(savedRoutes') > Len(savedRoutes)
                                 \/ Len(storage'.routes) > Len(storage.routes))) =>
          HandleSaveRoute
     /\ (status = "mounted" /\ (Len(savedRoutes') < Len(savedRoutes)
                                 \/ Len(storage'.routes) < Len(storage.routes))) =>
          DeleteSomeRoute]_vars

\* with two routes saved and stored, a request was dispatched, the first saved
\* route was loaded while it was pending, and the oracle then refused it
C11_Witness ==
  /\ error = Rethrown(TransportMessage).error
  /\ inflight = <<>>
  /\ Len(savedRoutes) = 2
  /\ storage = [kind |-> "array", routes |-> savedRoutes]
  /\ savedRoutes[1].optimizedRoute # savedRoutes[2].optimizedRoute
  /\ optimizedRoute = Some(savedRoutes[1].optimizedRoute)

\* C12: with two tabs initialised from the same slot, a write by either tab
\* (save or delete) puts into the slot the writer's own collection, computed
\* from what the writer holds and not from what the slot holds; a tab's
\* collection changes only by its own save or delete.  Hence the lost update:
\* see C12_Witness.
C12_WriterReplacesSlot ==
  [][/\ TabSave =>
          /\ savedRoutes' = Append(savedRoutes, NewRoute)
          /\ storage' = [kind |-> "array", routes |-> savedRoutes']
     /\ \A i \in 1..Len(savedRoutes) :
          HandleDeleteRoute(i) =>
            /\ savedRoutes' = WithoutId(savedRoutes, savedRoutes[i].id)
            /\ storage' = [kind |-> "array", routes |-> savedRoutes']
     /\ (TabSave \/ DeleteSomeRoute) => background' = background
     /\ (status = "mounted" /\ ~TabSave /\ ~DeleteSomeRoute /\ ~SwitchTab) =>
          /\ savedRoutes' = savedRoutes
          /\ background' = background
          /\ storage' = storage
     /\ SwitchTab => (storage' = storage /\ savedRoutes' = background.savedRoutes
                       /\ background'.savedRoutes = savedRoutes)]_vars

\* The lost update.  Tab A holds the one route it saved, with id 1, and has
\* deleted nothing; tab B saved one route and deleted one; the slot holds no
\* route.  The clock left 0 because a route with id 0 was held, which was B's
\* (A's only route has id 1): B saved before A and deleted a route with id 0
\* after A's save.  A's save had dropped B's route from the slot, and B's
\* delete dropped A's, whose id 1 no delete was given.
C12_Witness ==
  /\ tab = "B"
  /\ nSaves = 1
  /\ nDeletes = 1
  /\ savedRoutes = <<>>
  /\ background.status = "mounted"
  /\ background.nSaves = 1
  /\ background.nDeletes = 0
  /\ Len(background.savedRoutes) = 1
  /\ background.savedRoutes[1].id = 1
  /\ storage = [kind |-> "array", routes |-> <<>>]

\* C13: the startAddress and deliveryAddresses of every SavedRoute are the
\* warehouse address and the delivery list of the request (or of the loaded
\* route) that produced its optimizedRoute, also when the address inputs were
\* edited between the optimization and the save: every save stores the
\* addresses the displayed route was produced from.
C13_SnapshotIsConsistent ==
  [][HandleSaveRoute =>
       LET saved == savedRoutes'[Len(savedRoutes')]
       IN /\ ~IsNull(producedFrom)
          /\ saved.startAddress = Val(producedFrom).startAddress
          /\ saved.deliveryAddresses = Val(producedFrom).deliveryAddresses]_vars

====
